---- MODULE Spec2Model ----
(***************************************************************************)
(* Model of gff2_to_gff3.py: the GFF2 -> GFF3 batch converter.             *)
(*                                                                         *)
(* Text is modelled as TLA+ strings, character by character.  A file is    *)
(* the sequence of its lines, every line carrying its terminating "\n",    *)
(* as Python's "for line in fin" yields them and as fout.write appends     *)
(* them.  INPUT_DIR and OUTPUT_DIR are the same directory (lines 22-23),   *)
(* so one map from file name to file content models both.                  *)
(***************************************************************************)
EXTENDS Integers, Sequences, FiniteSets, TLC

VARIABLES
    fs,        \* the directory: a function from file name to sequence of lines
    pc,        \* position of main: "start", "parse", "write", "done", "nofiles", "aborted"
    files,     \* main's list `files` (line 86), in directory-listing order
    idx,       \* index in `files` of the file the for loop (line 94) is at
    parsed,    \* the tuple returned by parse_gff2 for the current file (line 100)
    err,       \* the exception that left main, "" when none
    run,       \* 1 in the first run of the program, 2 in the second
    wrote,     \* history: indices in `files` for which write_gff3 opened its output in this run
    first      \* history: the directory as this run found it (fs), and the first run's `files`, error and end

vars == <<fs, pc, files, idx, parsed, err, run, wrote, first>>

-----------------------------------------------------------------------------
(* Strings *)

Char(s, i) == SubSeq(s, i, i)

StartsWith(s, p) == Len(s) >= Len(p) /\ SubSeq(s, 1, Len(p)) = p

EndsWith(s, p) == Len(s) >= Len(p) /\ SubSeq(s, Len(s) - Len(p) + 1, Len(s)) = p

UpperCase == "ABCDEFGHIJKLMNOPQRSTUVWXYZ"

LowerCase == "abcdefghijklmnopqrstuvwxyz"

Digits == "0123456789"

RECURSIVE IndexFrom(_, _, _)
\* the first index >= i at which c occurs in s, 0 when there is none
IndexFrom(s, c, i) ==
    IF i > Len(s) THEN 0
    ELSE IF Char(s, i) = c THEN i
    ELSE IndexFrom(s, c, i + 1)

\* 0 when c does not occur in s, else the first index at which it does
IndexOf(s, c) == IndexFrom(s, c, 1)

RECURSIVE RFindFrom(_, _, _)
\* the last index <= i at which c occurs in s, 0 when there is none
RFindFrom(s, c, i) ==
    IF i < 1 THEN 0
    ELSE IF Char(s, i) = c THEN i
    ELSE RFindFrom(s, c, i - 1)

\* the last index at which c occurs in s, 0 when it does not (str.rfind + 1)
RFind(s, c) == RFindFrom(s, c, Len(s))

LowerChar(c) ==
    IF IndexOf(UpperCase, c) > 0 THEN Char(LowerCase, IndexOf(UpperCase, c)) ELSE c

RECURSIVE Lower(_)
\* str.lower()
Lower(s) == IF s = "" THEN "" ELSE LowerChar(Char(s, 1)) \o Lower(SubSeq(s, 2, Len(s)))

\* what \s matches and \S does not, and what int() strips
IsSpace(c) == c \in {" ", "\t", "\n", "\r", "\f"}

IsDigit(c) == IndexOf(Digits, c) > 0

RECURSIVE RStripNL(_)
\* str.rstrip('\n')
RStripNL(s) ==
    IF s # "" /\ Char(s, Len(s)) = "\n" THEN RStripNL(SubSeq(s, 1, Len(s) - 1)) ELSE s

RECURSIVE Split(_, _)
\* str.split(sep) for a one-character sep: always at least one field
Split(s, sep) ==
    LET i == IndexOf(s, sep)
    IN  IF i = 0 THEN <<s>>
        ELSE <<SubSeq(s, 1, i - 1)>> \o Split(SubSeq(s, i + 1, Len(s)), sep)

RECURSIVE Strip(_)
\* str.strip(), applied by int() to its argument
Strip(s) ==
    IF s # "" /\ IsSpace(Char(s, 1)) THEN Strip(SubSeq(s, 2, Len(s)))
    ELSE IF s # "" /\ IsSpace(Char(s, Len(s))) THEN Strip(SubSeq(s, 1, Len(s) - 1))
    ELSE s

RECURSIVE DigitsValue(_, _)
\* the value of the decimal digits of s, underscores skipped, acc the value so far
DigitsValue(s, acc) ==
    IF s = "" THEN acc
    ELSE IF Char(s, 1) = "_" THEN DigitsValue(SubSeq(s, 2, Len(s)), acc)
    ELSE DigitsValue(SubSeq(s, 2, Len(s)), 10 * acc + (IndexOf(Digits, Char(s, 1)) - 1))

\* the digit part int() accepts: digits, single underscores only between digits
IsIntBody(b) ==
    /\ b # ""
    /\ \A i \in 1..Len(b) : IsDigit(Char(b, i)) \/ Char(b, i) = "_"
    /\ IsDigit(Char(b, 1)) /\ IsDigit(Char(b, Len(b)))
    /\ \A i \in 1..(Len(b) - 1) : ~(Char(b, i) = "_" /\ Char(b, i + 1) = "_")

\* int(s): [ok |-> TRUE, val |-> n], or ok = FALSE where Python raises ValueError
ParseInt(s) ==
    LET t    == Strip(s)
        sign == IF t # "" /\ Char(t, 1) \in {"+", "-"} THEN Char(t, 1) ELSE ""
        body == SubSeq(t, Len(sign) + 1, Len(t))
    IN  IF IsIntBody(body)
        THEN [ok |-> TRUE,
              val |-> IF sign = "-" THEN 0 - DigitsValue(body, 0) ELSE DigitsValue(body, 0)]
        ELSE [ok |-> FALSE, val |-> 0]

RECURSIVE NatToStr(_)
NatToStr(n) ==
    IF n < 10 THEN Char(Digits, n + 1)
    ELSE NatToStr(n \div 10) \o Char(Digits, (n % 10) + 1)

\* str(n) for an int, as an f-string renders {start}, {end}, {s}, {e}
IntToStr(n) == IF n < 0 THEN "-" \o NatToStr(0 - n) ELSE NatToStr(n)

RECURSIVE Join(_, _)
\* sep.join(parts)
Join(parts, sep) ==
    IF parts = <<>> THEN ""
    ELSE IF Len(parts) = 1 THEN parts[1]
    ELSE parts[1] \o sep \o Join(Tail(parts), sep)

-----------------------------------------------------------------------------
(* convert_attributes, lines 29-39 *)

RECURSIVE SkipSpace(_, _)
\* the first index >= i of s that holds no whitespace (Len(s) + 1 when none): \s*
SkipSpace(s, i) ==
    IF i > Len(s) \/ ~IsSpace(Char(s, i)) THEN i ELSE SkipSpace(s, i + 1)

RECURSIVE RunEnd(_, _)
\* the last index of the run of non-whitespace that holds index i: greedy \S+
RunEnd(s, i) ==
    IF i + 1 > Len(s) \/ IsSpace(Char(s, i + 1)) THEN i ELSE RunEnd(s, i + 1)

\* first alternative at p with key s[p..k]: (\S+?)\s*"([^"]*)"
QuotedAt(s, p, k) ==
    LET q == SkipSpace(s, k + 1)
    IN  /\ \A i \in p..k : ~IsSpace(Char(s, i))
        /\ q <= Len(s) /\ Char(s, q) = "\""
        /\ \E r \in (q + 1)..Len(s) : Char(s, r) = "\""

\* second alternative at p with key s[p..k]: (\S+?)=(\S+)
AssignAt(s, p, k) ==
    /\ \A i \in p..k : ~IsSpace(Char(s, i))
    /\ k + 2 <= Len(s) /\ Char(s, k + 1) = "=" /\ ~IsSpace(Char(s, k + 2))

\* pattern.match at position p: the alternatives in order, the lazy key as short
\* as possible.  alt = 0: no match at p.
MatchAt(s, p) ==
    IF \E k \in p..Len(s) : QuotedAt(s, p, k)
    THEN LET k == CHOOSE k \in p..Len(s) :
                    QuotedAt(s, p, k) /\ \A j \in p..(k - 1) : ~QuotedAt(s, p, j)
             q == SkipSpace(s, k + 1)
             r == CHOOSE r \in (q + 1)..Len(s) :
                    Char(s, r) = "\"" /\ \A j \in (q + 1)..(r - 1) : Char(s, j) # "\""
         IN  [alt |-> 1, start |-> p, stop |-> r,
              key |-> SubSeq(s, p, k), val |-> SubSeq(s, q + 1, r - 1)]
    ELSE IF \E k \in p..Len(s) : AssignAt(s, p, k)
    THEN LET k == CHOOSE k \in p..Len(s) :
                    AssignAt(s, p, k) /\ \A j \in p..(k - 1) : ~AssignAt(s, p, j)
             r == RunEnd(s, k + 2)
         IN  [alt |-> 2, start |-> p, stop |-> r,
              key |-> SubSeq(s, p, k), val |-> SubSeq(s, k + 2, r)]
    ELSE [alt |-> 0, start |-> p, stop |-> p, key |-> "", val |-> ""]

RECURSIVE FindIter(_, _)
\* pattern.finditer(attr_str): the non-overlapping matches from position p on,
\* leftmost first
FindIter(s, p) ==
    IF p > Len(s) THEN <<>>
    ELSE LET m == MatchAt(s, p)
         IN  IF m.alt = 0 THEN FindIter(s, p + 1)
             ELSE <<m>> \o FindIter(s, m.stop + 1)

\* the loop body, lines 34-38: group(1)/group(2) are set exactly when the first
\* alternative matched, group(3)/group(4) when the second did
AttrEntry(m) == m.key \o "=" \o m.val

\* AttrEntries collecting into a dict: a key that comes again is not entered again
AttrEntriesByKey(attr_str) ==
    LET ms == FindIter(attr_str, 1)
        New(i) == \A j \in 1..(i - 1) : ms[j].key # ms[i].key
        RECURSIVE From(_)
        From(i) ==
            IF i > Len(ms) THEN <<>>
            ELSE (IF New(i) THEN <<AttrEntry(ms[i])>> ELSE <<>>) \o From(i + 1)
    IN  From(1)

AttrEntries(attr_str) ==
    LET ms == FindIter(attr_str, 1)
    IN  [i \in 1..Len(ms) |-> AttrEntry(ms[i])]

convert_attributes(attr_str) == Join(AttrEntries(attr_str), ";")

-----------------------------------------------------------------------------
(* parse_gff2, lines 41-62 *)

None == "None"

UnpackError == "ValueError: too many values to unpack (expected 9)"

IntError == "ValueError: invalid literal for int() with base 10"

EmptyError == "ValueError: min() arg is an empty sequence"

OSError == "OSError"

\* IsComment without the test for track lines
IsCommentHashOnly(line) == StartsWith(line, "##") \/ StartsWith(line, "#")

\* line 49
IsComment(line) ==
    StartsWith(line, "track") \/ StartsWith(line, "##") \/ StartsWith(line, "#")

SeqMin(seq) == CHOOSE x \in {seq[i] : i \in 1..Len(seq)} : \A i \in 1..Len(seq) : x <= seq[i]

SeqMax(seq) == CHOOSE x \in {seq[i] : i \in 1..Len(seq)} : \A i \in 1..Len(seq) : x >= seq[i]

\* the locals of parse_gff2 before the loop, lines 43-46
ParseStart ==
    [status |-> "ok", features |-> <<>>, starts |-> <<>>, ends |-> <<>>,
     seqid |-> None, strand |-> None]

\* lines 54-61 for a line of exactly nine columns
ParseCols(st, cols) ==
    LET s == ParseInt(cols[4])
        e == ParseInt(cols[5])
    IN  IF ~s.ok \/ ~e.ok
        THEN [st EXCEPT !.status = IntError, !.seqid = cols[1]]
        ELSE [status   |-> "ok",
              seqid    |-> cols[1],
              starts   |-> Append(st.starts, s.val),
              ends     |-> Append(st.ends, e.val),
              strand   |-> cols[7],
              features |-> Append(st.features,
                  <<cols[3], s.val, e.val, cols[6], cols[7], cols[8],
                    convert_attributes(cols[9])>>)]

\* ParseLine skipping every line that has not exactly nine columns
ParseLineSkipLong(st, line) ==
    IF st.status # "ok" THEN st
    ELSE IF IsComment(line) THEN st
    ELSE LET cols == Split(RStripNL(line), "\t")
         IN  IF Len(cols) # 9 THEN st ELSE ParseCols(st, cols)

\* one iteration of the loop, lines 48-61; a raised exception ends the loop.
\* Unpacking cols into nine names (line 54) raises when there are more.
ParseLine(st, line) ==
    IF st.status # "ok" THEN st
    ELSE IF IsComment(line) THEN st
    ELSE LET cols == Split(RStripNL(line), "\t")
         IN  IF Len(cols) < 9 THEN st
             ELSE IF Len(cols) > 9 THEN [st EXCEPT !.status = UnpackError]
             ELSE ParseCols(st, cols)

RECURSIVE ReadLines(_, _, _)
\* the for loop of line 48 from line i of the file on
ReadLines(st, lines, i) ==
    IF i > Len(lines) THEN st ELSE ReadLines(ParseLine(st, lines[i]), lines, i + 1)

Failed(e) ==
    [status |-> e, seqid |-> "", start |-> 0, end |-> 0, strand |-> "", features |-> <<>>]

\* SpanOf taking the span from the first and the last line instead of min and max
SpanOfFirstLast(st) ==
    IF st.starts = <<>> THEN Failed(EmptyError)
    ELSE [status |-> "ok", seqid |-> st.seqid, start |-> st.starts[1],
          end |-> st.ends[Len(st.ends)], strand |-> st.strand, features |-> st.features]

\* SpanOf with max(starts) where the code has min(starts)
SpanOfMaxStart(st) ==
    IF st.starts = <<>> THEN Failed(EmptyError)
    ELSE [status |-> "ok", seqid |-> st.seqid, start |-> SeqMax(st.starts),
          end |-> SeqMax(st.ends), strand |-> st.strand, features |-> st.features]

\* SpanOf returning an empty span for a file without features instead of raising
SpanOfDefault(st) ==
    IF st.starts = <<>>
    THEN [status |-> "ok", seqid |-> st.seqid, start |-> 0, end |-> 0,
          strand |-> st.strand, features |-> st.features]
    ELSE [status |-> "ok", seqid |-> st.seqid, start |-> SeqMin(st.starts),
          end |-> SeqMax(st.ends), strand |-> st.strand, features |-> st.features]

\* line 62: min(starts), max(ends); both raise ValueError on an empty list
SpanOf(st) ==
    IF st.starts = <<>> THEN Failed(EmptyError)
    ELSE [status |-> "ok", seqid |-> st.seqid, start |-> SeqMin(st.starts),
          end |-> SeqMax(st.ends), strand |-> st.strand, features |-> st.features]

\* parse_gff2 on a file that open() could read, given as its lines: the returned
\* tuple with status "ok", or the exception raised
parse_gff2(lines) ==
    LET st == ReadLines(ParseStart, lines, 1)
    IN  IF st.status # "ok" THEN Failed(st.status) ELSE SpanOf(st)

-----------------------------------------------------------------------------
(* write_gff3, lines 64-83 *)

\* line 66
MrnaId(base) == base \o "-PA"

\* IsChild comparing the type without regard to case
IsChildAnyCase(ftype) == Lower(ftype) \in {"cds", "exon"}

\* line 77
IsChild(ftype) == ftype \in {"CDS", "exon"}

\* lines 79-82
ChildLine(base, seqid, f) ==
    seqid \o "\tGEP\t" \o f[1] \o "\t" \o IntToStr(f[2]) \o "\t" \o IntToStr(f[3])
        \o "\t" \o f[4] \o "\t" \o f[5] \o "\t" \o f[6]
        \o "\tParent=" \o MrnaId(base) \o ";" \o f[7] \o "\n"

RECURSIVE ChildLines(_, _, _)
\* the loop of lines 76-82
ChildLines(base, seqid, features) ==
    IF features = <<>> THEN <<>>
    ELSE (IF IsChild(features[1][1]) THEN <<ChildLine(base, seqid, features[1])>> ELSE <<>>)
            \o ChildLines(base, seqid, Tail(features))

\* lines 71-74
MrnaLine(base, seqid, start, end, strand) ==
    seqid \o "\t.\tmRNA\t" \o IntToStr(start) \o "\t" \o IntToStr(end) \o "\t.\t"
        \o strand \o "\t.\tID=" \o MrnaId(base) \o ";transcript_id=" \o MrnaId(base) \o "\n"

\* OpenForWrite in mode 'a': the old content stays
OpenForAppend(old) == old

\* what open(path, 'w') leaves of the file's old content (line 67)
OpenForWrite(old) == <<>>

\* everything write_gff3 writes, in order
write_gff3(base, seqid, start, end, strand, features) ==
    <<"##gff-version 3\n",
      "##sequence-region " \o seqid \o " " \o IntToStr(start) \o " " \o IntToStr(end) \o "\n",
      MrnaLine(base, seqid, start, end, strand)>>
        \o ChildLines(base, seqid, features)
        \o <<"###\n">>

-----------------------------------------------------------------------------
(* main, lines 85-103 *)

OUTPUT_EXT == ".gff3"

\* the filter of lines 87-88
IsInput(f) == EndsWith(Lower(f), ".gff") /\ ~EndsWith(Lower(f), OUTPUT_EXT)

\* os.path.splitext(fname)[0] for a name without directory separators: the
\* extension starts at the last dot, unless only dots come before it
SplitExtRoot(fname) ==
    LET dot == RFind(fname, ".")
    IN  IF dot > 0 /\ \E i \in 1..(dot - 1) : Char(fname, i) # "."
        THEN SubSeq(fname, 1, dot - 1)
        ELSE fname

\* line 97
OutName(fname) == SplitExtRoot(fname) \o OUTPUT_EXT

Ended == {"done", "nofiles", "aborted"}

NoResult == Failed("")

\* the orders in which os.listdir can return the names of S
Listings(S) ==
    {p \in [1..Cardinality(S) -> S] : \A i, j \in 1..Cardinality(S) : p[i] = p[j] => i = j}

\* lines 86-92: list the directory in whatever order the system gives, keep the
\* GFF2 files; with none, print the notice and return
ListDir ==
    /\ pc = "start"
    /\ \E l \in Listings({f \in DOMAIN fs : IsInput(f)}) : files' = l
    /\ pc' = IF files' = <<>> THEN "nofiles" ELSE "parse"
    /\ idx' = 1
    /\ wrote' = {}
    /\ UNCHANGED <<fs, parsed, err, run, first>>

\* Parse catching what parse_gff2 raises and going on with the next file
ParseSkipErrors ==
    /\ pc = "parse"
    /\ idx <= Len(files)
    /\ \E unreadable \in BOOLEAN :
          LET r == IF unreadable THEN Failed(OSError) ELSE parse_gff2(fs[files[idx]])
          IN  IF r.status = "ok"
              THEN /\ pc' = "write"
                   /\ parsed' = r
                   /\ idx' = idx
              ELSE /\ pc' = "parse"
                   /\ parsed' = NoResult
                   /\ idx' = idx + 1
    /\ UNCHANGED <<fs, files, err, run, wrote, first>>

\* line 100 for the file the loop is at: open() fails, or parse_gff2 raises, and
\* the exception leaves main; or parse_gff2 returns
Parse ==
    /\ pc = "parse"
    /\ idx <= Len(files)
    /\ \E unreadable \in BOOLEAN :
          LET r == IF unreadable THEN Failed(OSError) ELSE parse_gff2(fs[files[idx]])
          IN  IF r.status = "ok"
              THEN /\ pc' = "write"
                   /\ parsed' = r
                   /\ err' = err
              ELSE /\ pc' = "aborted"
                   /\ parsed' = NoResult
                   /\ err' = r.status
    /\ UNCHANGED <<fs, files, idx, run, wrote, first>>

\* line 101: write_gff3 for the file just parsed; open(path, 'w') fails and the
\* exception leaves main, or the file is replaced by the lines written and the
\* loop moves on
Write ==
    /\ pc = "write"
    /\ \E unwritable \in BOOLEAN :
          IF unwritable
          THEN /\ pc' = "aborted"
               /\ err' = OSError
               /\ UNCHANGED <<fs, idx, wrote>>
          ELSE LET out  == OutName(files[idx])
                   old  == IF out \in DOMAIN fs THEN fs[out] ELSE <<>>
                   text == OpenForWrite(old)
                             \o write_gff3(SplitExtRoot(files[idx]), parsed.seqid,
                                     parsed.start, parsed.end, parsed.strand,
                                     parsed.features)
               IN  /\ fs' = [f \in DOMAIN fs \cup {out} |-> IF f = out THEN text ELSE fs[f]]
                   /\ wrote' = wrote \cup {idx}
                   /\ idx' = idx + 1
                   /\ pc' = "parse"
                   /\ err' = err
    /\ parsed' = NoResult
    /\ UNCHANGED <<files, run, first>>

\* line 103: the loop is through, the closing message is printed
LoopExit ==
    /\ pc = "parse"
    /\ idx > Len(files)
    /\ pc' = "done"
    /\ UNCHANGED <<fs, files, idx, parsed, err, run, wrote, first>>

\* the program is started a second time on the directory the first run left
RunAgain ==
    /\ pc \in Ended
    /\ run = 1
    /\ run' = 2
    /\ first' = [files |-> files, fs |-> fs, err |-> err, pc |-> pc]
    /\ pc' = "start"
    /\ files' = <<>>
    /\ idx' = 1
    /\ parsed' = NoResult
    /\ err' = ""
    /\ wrote' = {}
    /\ UNCHANGED fs

\* one run of the program
NextOnce == ListDir \/ Parse \/ Write \/ LoopExit

Next == ListDir \/ Parse \/ Write \/ LoopExit \/ RunAgain

\* the state when the program is started on directory d
Started(d) ==
    /\ fs = d
    /\ pc = "start"
    /\ files = <<>>
    /\ idx = 1
    /\ parsed = NoResult
    /\ err = ""
    /\ run = 1
    /\ wrote = {}
    /\ first = [files |-> <<>>, fs |-> d, err |-> "", pc |-> "start"]

-----------------------------------------------------------------------------
(* The batch: directories of a few files *)

MaxFiles == 3

\* two names that differ in the case of the extension only, the extension alone,
\* and a file main passes over
NamePool == {"g.1.gff", "g.1.GFF", ".gff", "notes.txt"}

FileGood1 ==
    <<"##gff-version 2\n",
      "chr1\tGEP\tgene\t50\t400\t.\t+\t.\tgene_id \"G1\"\n",
      "chr1\tGEP\tCDS\t100\t200\t.\t+\t0\tgene_id \"G1\"; transcript_id \"T1\"\n",
      "chr1\tGEP\texon\t100\t260\t.\t+\t.\tgene_id \"G1\"\n">>

FileGood2 ==
    <<"chr2\tGEP\tCDS\t7\t19\t.\t-\t0\tName=x\n">>

FileNoFeatures ==
    <<"track name=models\n", "\n", "chr1\tGEP\tCDS\t100\n">>

FileBadInt ==
    <<"chr1\tGEP\tCDS\t100\t2e2\t.\t+\t0\tgene_id \"G1\"\n">>

ContentPool == {FileGood1, FileGood2, FileNoFeatures, FileBadInt}

FileNotes == <<"to do\n">>

ContentsOf(name) == IF name = "notes.txt" THEN {FileNotes} ELSE ContentPool

Directories ==
    UNION {{d \in [names -> ContentPool \cup {FileNotes}] : \A n \in names : d[n] \in ContentsOf(n)} :
              names \in {ns \in SUBSET NamePool : Cardinality(ns) <= MaxFiles}}

Init == \E d \in Directories : Started(d)

Spec == Init /\ [][Next]_vars

-----------------------------------------------------------------------------
(* One file: every sequence of a few lines *)

MaxLines == 3

LinePool ==
    {"chr1\tGEP\tCDS\t100\t200\t.\t+\t0\tgene_id \"G1\"\n",
     "chr1\tGEP\texon\t150\t260\t.\t+\t.\tgene_id \"G1\"\n",
     "chr1\tGEP\tgene\t50\t400\t.\t+\t.\tgene_id \"G1\"\n",
     "chr2\tGEP\tcds\t300\t250\t.\t-\t0\tgene_id \"G1\"\n",
     "##gff-version 2\n",
     "track1\tGEP\tCDS\t1\t900\t.\t+\t0\tgene_id \"G1\"\n",
     "chr1\tGEP\tCDS\t100\n",
     "chr1\tGEP\tCDS\t100\t200\t.\t+\t0\tgene_id \"G1\"\tmore\n",
     "chr1\tGEP\tCDS\t1o0\t200\t.\t+\t0\tgene_id \"G1\"\n"}

RECURSIVE SeqsUpTo(_, _)
\* the sequences over S of length at most n
SeqsUpTo(S, n) ==
    IF n = 0 THEN {<<>>}
    ELSE LET shorter == SeqsUpTo(S, n - 1)
         IN  shorter \cup {Append(q, x) : q \in shorter, x \in S}

InitFile == \E lines \in SeqsUpTo(LinePool, MaxLines) : Started([n \in {"gene1.gff"} |-> lines])

SpecFile == InitFile /\ [][NextOnce]_vars

-----------------------------------------------------------------------------
(* One feature line: every attribute column made of a few tokens *)

MaxTokens == 3

TokenPool == {"gene_id \"G1\"", "transcript_id \"T1\"", "key \"\"", "Name=x", "note"}

AttrLine(tokens) == "chr1\tGEP\tCDS\t100\t200\t.\t+\t0\t" \o Join(tokens, "; ") \o "\n"

InitAttr ==
    \E tokens \in SeqsUpTo(TokenPool, MaxTokens) :
        Started([n \in {"gene1.gff"} |-> <<AttrLine(tokens)>>])

SpecAttr == InitAttr /\ [][NextOnce]_vars

-----------------------------------------------------------------------------
(* Notions the properties below are stated in *)

Cols(line) == Split(RStripNL(line), "\t")

\* a comment line: it begins with # (so also with ##) or with track
CommentLine(line) == StartsWith(line, "#") \/ StartsWith(line, "track")

ShortLine(line) == ~CommentLine(line) /\ Len(Cols(line)) < 9

LongLine(line) == ~CommentLine(line) /\ Len(Cols(line)) > 9

\* a valid feature line: no comment, nine columns, integer start and end
ValidLine(line) ==
    /\ ~CommentLine(line)
    /\ Len(Cols(line)) = 9
    /\ ParseInt(Cols(line)[4]).ok /\ ParseInt(Cols(line)[5]).ok

StartOf(line) == ParseInt(Cols(line)[4]).val

EndOf(line) == ParseInt(Cols(line)[5]).val

ValidLines(lines) == SelectSeq(lines, ValidLine)

\* the file without its comment lines, without its short lines
Uncommented(lines) == LET Keep(l) == ~CommentLine(l) IN SelectSeq(lines, Keep)

Unshortened(lines) == LET Keep(l) == ~ShortLine(l) IN SelectSeq(lines, Keep)

\* parse_gff2 has returned for the file the loop is at
Returned == pc = "write"

\* the input file the loop is at
CurIn == fs[files[idx]]

\* write_gff3 has just returned: the last step wrote JustOut from JustIn
JustWritten == pc = "parse" /\ idx > 1 /\ (idx - 1) \in wrote

JustIn == fs[files[idx - 1]]

JustOut == fs[OutName(files[idx - 1])]

\* the lines of an output file between the mRNA line and the ### line
ChildrenOf(out) == SubSeq(out, 4, Len(out) - 1)

\* parse_gff2 raised for the file the loop is at (open() did not fail)
Raised == pc = "aborted" /\ err # OSError

-----------------------------------------------------------------------------
(* C1: when parse_gff2 returns, the span start is the least start and the   *)
(* span end the greatest end over all valid feature lines of the file,      *)
(* emitted or not, and the ##sequence-region line and the mRNA line written *)
(* carry these two values.                                                  *)

LeastStart(lines) ==
    CHOOSE m \in {StartOf(l) : l \in {lines[i] : i \in 1..Len(lines)}} :
        \A i \in 1..Len(lines) : m <= StartOf(lines[i])

GreatestEnd(lines) ==
    CHOOSE m \in {EndOf(l) : l \in {lines[i] : i \in 1..Len(lines)}} :
        \A i \in 1..Len(lines) : m >= EndOf(lines[i])

C1_SpanIsMinMax ==
    /\ Returned =>
          LET valid == ValidLines(CurIn)
          IN  /\ valid # <<>>
              /\ parsed.start = LeastStart(valid)
              /\ parsed.end = GreatestEnd(valid)
    /\ JustWritten =>
          LET valid  == ValidLines(JustIn)
              lo     == IntToStr(LeastStart(valid))
              hi     == IntToStr(GreatestEnd(valid))
              region == Split(RStripNL(JustOut[2]), " ")
              mrna   == Cols(JustOut[3])
          IN  /\ region[1] = "##sequence-region" /\ Len(region) = 4
              /\ region[3] = lo /\ region[4] = hi
              /\ mrna[3] = "mRNA"
              /\ mrna[4] = lo /\ mrna[5] = hi

\* a file whose extreme coordinates come from a gene line, which is not emitted
C1_Witness ==
    /\ JustWritten
    /\ Len(ValidLines(JustIn)) >= 2
    /\ \E i \in 2..Len(JustIn) : ValidLine(JustIn[i]) /\ Cols(JustIn[i])[3] = "gene"
    /\ Cols(JustOut[3])[4] = "50" /\ Cols(JustOut[3])[5] = "400"
    /\ Len(ChildrenOf(JustOut)) >= 1

-----------------------------------------------------------------------------
(* C2: in a written file the lines between the mRNA line and the ### line   *)
(* are exactly one line per valid input line of type CDS or exon (exact     *)
(* case), in input order; lines of any other type leave no line.            *)

Emitted(line) == ValidLine(line) /\ Cols(line)[3] \in {"CDS", "exon"}

\* type, start and end of a line, as text
Core(line) ==
    <<Cols(line)[3], IntToStr(ParseInt(Cols(line)[4]).val), IntToStr(ParseInt(Cols(line)[5]).val)>>

C2_OnlyCdsExonChildren ==
    JustWritten =>
        LET kids == ChildrenOf(JustOut)
            want == SelectSeq(JustIn, Emitted)
        IN  /\ Cols(JustOut[3])[3] = "mRNA"
            /\ JustOut[Len(JustOut)] = "###\n"
            /\ \A i \in 1..Len(kids) : Cols(kids[i])[3] \in {"CDS", "exon"}
            /\ Len(kids) = Len(want)
            /\ \A i \in 1..Len(kids) : Core(kids[i]) = Core(want[i])

\* an exon line and a CDS line emitted in input order, a line of another type dropped
C2_Witness ==
    /\ JustWritten
    /\ Len(ValidLines(JustIn)) = 3
    /\ Len(ChildrenOf(JustOut)) = 2
    /\ Cols(ChildrenOf(JustOut)[1])[3] = "exon"
    /\ Cols(ChildrenOf(JustOut)[2])[3] = "CDS"
    /\ \E i \in 1..Len(JustIn) : ValidLine(JustIn[i]) /\ Cols(JustIn[i])[3] = "cds"

-----------------------------------------------------------------------------
(* C6: comment lines change nothing: parse_gff2 returns (or raises) for a   *)
(* file what it returns (or raises) for the file without its comment lines, *)
(* the file written is the same, and no comment line of the input is a line *)
(* of the output.                                                           *)

C6_CommentsIgnored ==
    /\ Returned => parsed = parse_gff2(Uncommented(CurIn))
    /\ Raised => err = parse_gff2(Uncommented(CurIn)).status
    /\ JustWritten =>
          LET r == parse_gff2(Uncommented(JustIn))
          IN  /\ r.status = "ok"
              /\ JustOut = write_gff3(SplitExtRoot(files[idx - 1]), r.seqid, r.start,
                                      r.end, r.strand, r.features)
              /\ \A i \in 1..Len(JustIn) : \A j \in 1..Len(JustOut) :
                    CommentLine(JustIn[i]) => JustOut[j] # JustIn[i]

\* a file with a comment line of nine columns and numeric coordinates
C6_Witness ==
    /\ JustWritten
    /\ \E i \in 1..Len(JustIn) :
          /\ CommentLine(JustIn[i])
          /\ Len(Cols(JustIn[i])) = 9
          /\ ParseInt(Cols(JustIn[i])[4]).ok
    /\ \E i \in 1..Len(JustIn) : JustIn[i] = "##gff-version 2\n"
    /\ ValidLines(JustIn) # <<>>

-----------------------------------------------------------------------------
(* C9 as claimed: whenever parse_gff2 returns, span start <= span end,      *)
(* whatever the input lines' own start and end.                             *)

C9_SpanOrdered ==
    /\ Returned => parsed.start <= parsed.end
    /\ JustWritten => ParseInt(Cols(JustOut[3])[4]).val <= ParseInt(Cols(JustOut[3])[5]).val

(* C9 amended: when parse_gff2 returns and at least one valid feature line  *)
(* of the file has start <= end, the span has start <= end, on the          *)
(* ##sequence-region line and the mRNA line too.                            *)

SomeOrdered(lines) == \E i \in 1..Len(lines) : ValidLine(lines[i]) /\ StartOf(lines[i]) <= EndOf(lines[i])

C9_SpanOrderedIfSomeLineIs ==
    /\ (Returned /\ SomeOrdered(CurIn)) => parsed.start <= parsed.end
    /\ (JustWritten /\ SomeOrdered(JustIn)) =>
          /\ ParseInt(Cols(JustOut[3])[4]).val <= ParseInt(Cols(JustOut[3])[5]).val
          /\ ParseInt(Split(RStripNL(JustOut[2]), " ")[3]).val
                <= ParseInt(Split(RStripNL(JustOut[2]), " ")[4]).val

\* a file with a line whose start exceeds its end beside an ordered one
C9_Witness ==
    /\ JustWritten
    /\ SomeOrdered(JustIn)
    /\ \E i \in 1..Len(JustIn) : ValidLine(JustIn[i]) /\ StartOf(JustIn[i]) > EndOf(JustIn[i])

-----------------------------------------------------------------------------
(* C10: a non-comment line of fewer than nine columns leaves every local of *)
(* parse_gff2 as it was; one of more than nine columns reached by the loop  *)
(* raises the unpacking error, so that main is left before write_gff3 runs  *)
(* for that file.                                                           *)

\* the locals of parse_gff2 after the first n lines of the file
After(lines, n) == ReadLines(ParseStart, SubSeq(lines, 1, n), 1)

LineRules(lines) ==
    \A i \in 1..Len(lines) :
        LET st == After(lines, i - 1)
        IN  /\ ShortLine(lines[i]) => ParseLine(st, lines[i]) = st
            /\ (LongLine(lines[i]) /\ st.status = "ok") =>
                  ParseLine(st, lines[i]).status = UnpackError

HasLong(lines) == \E i \in 1..Len(lines) : LongLine(lines[i])

C10_ShortSkippedLongRaises ==
    /\ (Returned \/ Raised) => LineRules(CurIn)
    /\ Returned => (~HasLong(CurIn) /\ parsed = parse_gff2(Unshortened(CurIn)))
    /\ JustWritten => ~HasLong(JustIn)
    /\ (pc = "aborted" /\ HasLong(CurIn)) =>
          /\ idx \notin wrote
          /\ err \in {UnpackError, IntError, OSError}
          /\ (err = IntError) =>
                \E i \in 1..Len(CurIn) : After(CurIn, i).status = IntError
    /\ (Raised /\ After(CurIn, Len(CurIn)).status = UnpackError) => err = UnpackError

\* a short line was passed over, then a long line ended the run
C10_Witness ==
    /\ pc = "aborted" /\ err = UnpackError
    /\ Len(CurIn) >= 3
    /\ ShortLine(CurIn[1]) /\ ValidLine(CurIn[2]) /\ LongLine(CurIn[3])
    /\ OutName(files[idx]) \notin DOMAIN fs

-----------------------------------------------------------------------------
(* C3 as claimed: after the second run the output files are those the first *)
(* run left, byte for byte, whatever the listing order of either run (no    *)
(* open() failing in either).                                               *)

\* the .gff3 files of directory d, each with its content
OutputFiles(d) == {<<n, d[n]>> : n \in {m \in DOMAIN d : EndsWith(m, OUTPUT_EXT)}}

SecondRunOver == run = 2 /\ pc \in Ended

NoOpenFailure == err # OSError /\ first.err # OSError

C3_Idempotent ==
    (SecondRunOver /\ NoOpenFailure) => OutputFiles(fs) = OutputFiles(first.fs)

(* C3 amended: after a second run that listed the directory in the same     *)
(* order as the first, the output files are those the first run left, byte  *)
(* for byte (no open() failing in either).                                  *)

C3_IdempotentSameListing ==
    (SecondRunOver /\ NoOpenFailure /\ files = first.files) =>
        OutputFiles(fs) = OutputFiles(first.fs)

\* two runs through three files in the same order, two outputs left
C3_Witness ==
    /\ SecondRunOver /\ NoOpenFailure /\ files = first.files
    /\ pc = "done" /\ first.pc = "done"
    /\ Len(files) = 3
    /\ Cardinality(OutputFiles(fs)) = 2

-----------------------------------------------------------------------------
(* C4: a step of main on a file without a valid feature line leaves main    *)
(* with the empty-sequence error of min() (or with open()'s error), and     *)
(* leaves the directory as it was: write_gff3 does not run for the file.    *)

NoValidLines(lines) ==
    \A i \in 1..Len(lines) : CommentLine(lines[i]) \/ Len(Cols(lines[i])) < 9

C4_EmptyInputAborts ==
    [][(pc = "parse" /\ idx <= Len(files) /\ NoValidLines(CurIn)) =>
          /\ pc' = "aborted"
          /\ err' \in {EmptyError, OSError}
          /\ fs' = fs
          /\ wrote' = wrote]_vars

\* the run ended on a file without features whose output file an earlier
\* file of the same base name had written
C4_Witness ==
    /\ pc = "aborted" /\ err = EmptyError
    /\ NoValidLines(CurIn) /\ Len(CurIn) >= 3
    /\ idx \notin wrote
    /\ OutName(files[idx]) \in DOMAIN fs

-----------------------------------------------------------------------------
(* C5: when an error has left main at the file with index idx, nothing was  *)
(* written for that file or a later one, every earlier file's output file   *)
(* holds a complete output (##gff-version 3 through ###), the one of the    *)
(* last earlier file of that output name, and the directory stays as it is. *)

Complete(out) ==
    /\ Len(out) >= 4
    /\ out[1] = "##gff-version 3\n"
    /\ StartsWith(out[2], "##sequence-region ")
    /\ Cols(out[3])[3] = "mRNA"
    /\ out[Len(out)] = "###\n"

\* the greatest index below idx of a file written to the output file of file i
LastWriter(i) ==
    CHOOSE j \in 1..(idx - 1) :
        /\ OutName(files[j]) = OutName(files[i])
        /\ \A k \in (j + 1)..(idx - 1) : OutName(files[k]) # OutName(files[i])

OutputOf(fname) ==
    LET r == parse_gff2(fs[fname])
    IN  write_gff3(SplitExtRoot(fname), r.seqid, r.start, r.end, r.strand, r.features)

\* first.fs is the directory as the run found it: what differs from it was written
AbortedCleanly ==
    /\ \A i \in idx..Len(files) : i \notin wrote
    /\ \A n \in DOMAIN fs :
          (n \notin DOMAIN first.fs \/ fs[n] # first.fs[n]) =>
              \E i \in 1..(idx - 1) : n = OutName(files[i])
    /\ \A i \in 1..(idx - 1) :
          /\ i \in wrote
          /\ OutName(files[i]) \in DOMAIN fs
          /\ Complete(fs[OutName(files[i])])
          /\ fs[OutName(files[i])] = OutputOf(files[LastWriter(i)])

C5_FirstErrorAborts ==
    /\ [](pc = "aborted" => AbortedCleanly)
    /\ [][pc = "aborted" => (pc' = "start" /\ fs' = fs)]_vars

\* the second of three files failed: one output written, two files without
C5_Witness ==
    /\ pc = "aborted" /\ err = IntError
    /\ Len(files) = 3 /\ idx = 2
    /\ wrote = {1}
    /\ Complete(fs[OutName(files[1])])
    /\ OutName(files[3]) \notin DOMAIN fs

-----------------------------------------------------------------------------
(* C7: in a file just written the mRNA line's ID and transcript_id are both *)
(* <name without its .gff extension>-PA, and every child line's Parent is   *)
(* that identifier, for every name main accepts.                            *)

\* the name without its last four characters, the extension .gff in any case
WithoutGff(fname) == SubSeq(fname, 1, Len(fname) - 4)

C7_IdIsBaseName ==
    JustWritten =>
        LET id   == WithoutGff(files[idx - 1]) \o "-PA"
            kids == ChildrenOf(JustOut)
        IN  /\ Cols(JustOut[3])[9] = "ID=" \o id \o ";transcript_id=" \o id
            /\ \A i \in 1..Len(kids) : StartsWith(Cols(kids[i])[9], "Parent=" \o id \o ";")

-----------------------------------------------------------------------------
(* C8: convert_attributes never raises and returns the pairs the pattern    *)
(* matches as key=value joined with ';', in their order in the string, a    *)
(* key that comes twice entered twice.                                      *)

\* the entry each token of TokenPool stands for where it is in the column: a
\* quoted value loses its quotes, the value of a key=value token runs on to
\* the next whitespace, so it takes up the ';' that follows, and "note" is
\* no pair
EntryOf(tokens, i) ==
    IF tokens[i] = "gene_id \"G1\"" THEN <<"gene_id=G1">>
    ELSE IF tokens[i] = "transcript_id \"T1\"" THEN <<"transcript_id=T1">>
    ELSE IF tokens[i] = "key \"\"" THEN <<"key=">>
    ELSE IF tokens[i] = "Name=x" THEN (IF i < Len(tokens) THEN <<"Name=x;">> ELSE <<"Name=x">>)
    ELSE <<>>

RECURSIVE EntriesFrom(_, _)
EntriesFrom(tokens, i) ==
    IF i > Len(tokens) THEN <<>> ELSE EntryOf(tokens, i) \o EntriesFrom(tokens, i + 1)

Expected(tokens) == Join(EntriesFrom(tokens, 1), ";")

C8_AttributesInOrder ==
    /\ ~Raised
    /\ \A tokens \in SeqsUpTo(TokenPool, MaxTokens) :
          /\ (Returned /\ CurIn = <<AttrLine(tokens)>>) =>
                 parsed.features[1][7] = Expected(tokens)
          /\ (JustWritten /\ JustIn = <<AttrLine(tokens)>>) =>
                 Cols(JustOut[4])[9] = "Parent=gene1-PA;" \o Expected(tokens)

\* gene_id "G1"; transcript_id "T1" has become gene_id=G1;transcript_id=T1
C8_Witness ==
    /\ Returned
    /\ Cols(CurIn[1])[9] = "gene_id \"G1\"; transcript_id \"T1\""
    /\ parsed.features[1][7] = "gene_id=G1;transcript_id=T1"

====
